---- MODULE Spec2Model ----
(***************************************************************************)
(* Model of src/src/features/modals/NodeEditModal/index.tsx: the path      *)
(* addressed copy-on-write patch (setAtPath, getAtPath) over a heap of     *)
(* JavaScript containers, and the edit session of the NodeEditModal        *)
(* component (input initialisation effect, save, cancel).                  *)
(*                                                                         *)
(* JavaScript values.  Primitives are records tagged by t; a container is  *)
(* a heap cell [t, e, p] addressed by a reference [t |-> "ref", a]:        *)
(*   t = "arr": e is the element sequence (a hole reads as undefined),     *)
(*              p the named (non index) own properties;                    *)
(*   t = "obj": e is empty, p the own properties in JavaScript's own-key   *)
(*              order (canonical index keys ascending, then the other      *)
(*              keys in insertion order).                                  *)
(* A property entry is <<key, value>>; keys are strings.  String VALUES    *)
(* are sequences of one-character strings, so that indexing and spreading  *)
(* a string primitive can be computed.  Built-in and inherited properties  *)
(* (length, __proto__, constructor, ...) are not modelled: path segments   *)
(* are array indices and keys that name no such property.                  *)
(***************************************************************************)
EXTENDS Integers, Sequences, FiniteSets, TLC

VARIABLES
  \* ---- the edit session (React state and the stores the component reads)
  contents,      \* useFile contents: the document text, a token sequence
  selectedNode,  \* useGraph selectedNode: NoNode or [path, text]
  name,          \* React state of the name input
  color,         \* React state of the color input
  opened,        \* NodeEditModal visible (the opened prop)
  nodeModal,     \* NodeModal visible
  pending,       \* saves awaiting their setContents call, in dispatch order
  saves,         \* the number of saves dispatched so far
  last,          \* what the last handler did (history)
  hist,          \* history of the current modal session
  \* ---- the path functions applied to arbitrary inputs
  pheap,         \* the heap holding the input root and the value
  proot,         \* the input root
  ppath,         \* the path
  pvalue,        \* the value to write
  pout           \* the result of the last call

sessionVars == <<contents, selectedNode, name, color, opened, nodeModal, pending, saves, last, hist>>
pathVars == <<pheap, proot, ppath, pvalue, pout>>
vars == <<contents, selectedNode, name, color, opened, nodeModal, pending, saves, last, hist,
          pheap, proot, ppath, pvalue, pout>>

-----------------------------------------------------------------------------
(* Bounds *)

\* longest path handed to setAtPath / getAtPath in SpecPath
MaxPathLen == 3

\* saves dispatched in one behaviour of Spec
MaxSaves == 2

-----------------------------------------------------------------------------
(* Values *)

UNDEF == [t |-> "undef"]
NULL == [t |-> "null"]
Bool(b) == [t |-> "bool", b |-> b]
Num(n) == [t |-> "num", n |-> n]
Str(s) == [t |-> "str", s |-> s]
Ref(a) == [t |-> "ref", a |-> a]

\* container literals (trees: the children are values, not references)
Obj(entries) == [t |-> "obj", e |-> <<>>, p |-> entries]
Arr(elems) == [t |-> "arr", e |-> elems, p |-> <<>>]

\* path segments: typeof seg === "number" or a string key
Idx(i) == [t |-> "num", n |-> i]
Key(k) == [t |-> "str", k |-> k]

\* decimal digits: String(n) and the canonical array-index keys, 0..9
DigitStr == <<"0", "1", "2", "3", "4", "5", "6", "7", "8", "9">>

IsIndexKey(k) == \E i \in 1..Len(DigitStr) : DigitStr[i] = k
KeyIdx(k) == (CHOOSE i \in 1..Len(DigitStr) : DigitStr[i] = k) - 1

\* property key of a segment (ToPropertyKey)
ToKey(seg) == IF seg.t = "num" THEN DigitStr[seg.n + 1] ELSE seg.k

IsNullish(v) == v.t \in {"null", "undef"}

HasKey(entries, k) == \E i \in 1..Len(entries) : entries[i][1] = k

Lookup(entries, k) ==
  IF HasKey(entries, k)
  THEN entries[CHOOSE i \in 1..Len(entries) : entries[i][1] = k][2]
  ELSE UNDEF

\* obj[k] = v on own properties: an existing key keeps its place, a new
\* index key goes among the index keys in ascending order, any other new key
\* goes last.
PutProp(entries, k, v) ==
  IF HasKey(entries, k)
  THEN [i \in 1..Len(entries) |->
          IF entries[i][1] = k THEN <<k, v>> ELSE entries[i]]
  ELSE IF IsIndexKey(k)
  THEN LET before == SelectSeq(entries,
                       LAMBDA en : IsIndexKey(en[1]) /\ KeyIdx(en[1]) < KeyIdx(k))
           after == SelectSeq(entries,
                       LAMBDA en : ~(IsIndexKey(en[1]) /\ KeyIdx(en[1]) < KeyIdx(k)))
       IN before \o <<<<k, v>>>> \o after
  ELSE Append(entries, <<k, v>>)

Holes(n) == [i \in 1..n |-> UNDEF]

IsArray(h, v) == v.t = "ref" /\ h[v.a].t = "arr"
IsObject(h, v) == v.t = "ref" /\ h[v.a].t = "obj"

\* v[seg]: property read (own properties; a string primitive has its
\* characters at its indices)
Get(h, v, seg) ==
  LET k == ToKey(seg)
  IN CASE IsArray(h, v) ->
            IF IsIndexKey(k)
            THEN IF KeyIdx(k) < Len(h[v.a].e) THEN h[v.a].e[KeyIdx(k) + 1] ELSE UNDEF
            ELSE Lookup(h[v.a].p, k)
       [] IsObject(h, v) -> Lookup(h[v.a].p, k)
       [] v.t = "str" ->
            IF IsIndexKey(k) /\ KeyIdx(k) < Len(v.s)
            THEN Str(<<v.s[KeyIdx(k) + 1]>>) ELSE UNDEF
       [] OTHER -> UNDEF

\* container[seg] = val on the cell at address a: the heap afterwards.  An
\* index past the end of an array leaves holes before it.
SetProp(h, a, seg, val) ==
  LET k == ToKey(seg)
      c == h[a]
  IN IF c.t = "arr" /\ IsIndexKey(k)
     THEN [h EXCEPT ![a].e =
             IF KeyIdx(k) < Len(c.e)
             THEN [c.e EXCEPT ![KeyIdx(k) + 1] = val]
             ELSE c.e \o Holes(KeyIdx(k) - Len(c.e)) \o <<val>>]
     ELSE [h EXCEPT ![a].p = PutProp(c.p, k, val)]

\* own enumerable properties copied by an object spread { ...v }
SpreadEntries(h, v) ==
  CASE IsObject(h, v) -> h[v.a].p
    [] IsArray(h, v) ->
         [i \in 1..Len(h[v.a].e) |-> <<DigitStr[i], h[v.a].e[i]>>] \o h[v.a].p
    [] v.t = "str" -> [i \in 1..Len(v.s) |-> <<DigitStr[i], Str(<<v.s[i]>>)>>]
    [] OTHER -> <<>>

\* Array.isArray(v) ? v.slice() : { ...v }   (the new cell, not yet on the heap)
ShallowCopy(h, v) ==
  IF IsArray(h, v)
  THEN [t |-> "arr", e |-> h[v.a].e, p |-> <<>>]
  ELSE [t |-> "obj", e |-> <<>>, p |-> SpreadEntries(h, v)]

\* mutant of NewContainer: a missing container is always created as an object
NewContainer_AlwaysObject(nextSeg) == Obj(<<>>)

\* typeof nextSeg === "number" ? [] : {}
NewContainer(nextSeg) == IF nextSeg.t = "num" THEN Arr(<<>>) ELSE Obj(<<>>)

\* the loop of setAtPath from step i on, and the final assignment; cur is the
\* address of the container the code's cur refers to.  The heap afterwards.
RECURSIVE setAtPathFrom(_, _, _, _, _)
setAtPathFrom(h, cur, path, i, value) ==
  IF i = Len(path)
  THEN SetProp(h, cur, path[i], value)
  ELSE LET seg == path[i]
           nextSeg == path[i + 1]
           h1 == IF IsNullish(Get(h, Ref(cur), seg))
                 THEN SetProp(Append(h, NewContainer(nextSeg)), cur, seg, Ref(Len(h) + 1))
                 ELSE h
           copy == ShallowCopy(h1, Get(h1, Ref(cur), seg))
           h2 == SetProp(Append(h1, copy), cur, seg, Ref(Len(h1) + 1))
       IN setAtPathFrom(h2, Get(h2, Ref(cur), seg).a, path, i + 1, value)

\* mutant of setAtPath: the root container is written in place, not copied
setAtPath_NoRootCopy(h, root, path, value) ==
  IF Len(path) = 0
  THEN [h |-> h, r |-> value]
  ELSE IF root.t = "ref"
  THEN [h |-> setAtPathFrom(h, root.a, path, 1, value), r |-> root]
  ELSE [h |-> setAtPathFrom(Append(h, ShallowCopy(h, root)), Len(h) + 1, path, 1, value),
        r |-> Ref(Len(h) + 1)]

\* setAtPath(root, path, value) on heap h: the heap afterwards and the
\* returned value r
setAtPath(h, root, path, value) ==
  IF Len(path) = 0
  THEN [h |-> h, r |-> value]
  ELSE [h |-> setAtPathFrom(Append(h, ShallowCopy(h, root)), Len(h) + 1, path, 1, value),
        r |-> Ref(Len(h) + 1)]

RECURSIVE getAtPathFrom(_, _, _, _)
getAtPathFrom(h, cur, path, i) ==
  IF i > Len(path) THEN cur
  ELSE IF IsNullish(cur) THEN UNDEF
  ELSE getAtPathFrom(h, Get(h, cur, path[i]), path, i + 1)

\* mutant of getAtPath: the loop stops before the last segment
getAtPath_StopsEarly(h, root, path) ==
  IF Len(path) = 0 THEN root
  ELSE getAtPathFrom(h, root, SubSeq(path, 1, Len(path) - 1), 1)

\* getAtPath(root, path)
getAtPath(h, root, path) ==
  IF Len(path) = 0 THEN root ELSE getAtPathFrom(h, root, path, 1)

-----------------------------------------------------------------------------
(* Trees: a value with its containers inlined, for building inputs and for *)
(* deep comparison                                                         *)

IsContainer(v) == v.t \in {"arr", "obj"}

\* allocate the tree v on heap h: [h, v] with v a primitive or a reference
RECURSIVE Alloc(_, _)
RECURSIVE AllocSeq(_, _, _)
RECURSIVE AllocEntries(_, _, _)
AllocSeq(h, vs, acc) ==
  IF vs = <<>> THEN [h |-> h, vs |-> acc]
  ELSE LET r == Alloc(h, Head(vs))
       IN AllocSeq(r.h, Tail(vs), Append(acc, r.v))
AllocEntries(h, es, acc) ==
  IF es = <<>> THEN [h |-> h, es |-> acc]
  ELSE LET r == Alloc(h, Head(es)[2])
       IN AllocEntries(r.h, Tail(es), Append(acc, <<Head(es)[1], r.v>>))
Alloc(h, v) ==
  IF ~IsContainer(v) THEN [h |-> h, v |-> v]
  ELSE LET re == AllocSeq(h, v.e, <<>>)
           rp == AllocEntries(re.h, v.p, <<>>)
       IN [h |-> Append(rp.h, [t |-> v.t, e |-> re.vs, p |-> rp.es]),
           v |-> Ref(Len(rp.h) + 1)]

\* the tree under heap value v
RECURSIVE Tree(_, _)
Tree(h, v) ==
  IF v.t # "ref" THEN v
  ELSE [t |-> h[v.a].t,
        e |-> [i \in 1..Len(h[v.a].e) |-> Tree(h, h[v.a].e[i])],
        p |-> [i \in 1..Len(h[v.a].p) |->
                 <<h[v.a].p[i][1], Tree(h, h[v.a].p[i][2])>>]]

\* deep equality of two heap values
DeepEqual(h1, v1, h2, v2) == Tree(h1, v1) = Tree(h2, v2)

-----------------------------------------------------------------------------
(* SpecPath: setAtPath and getAtPath on bounded inputs *)

Segs == {Idx(0), Idx(1), Key("a"), Key("name")}

RECURSIVE PathsOfLen(_)
PathsOfLen(n) ==
  IF n = 0 THEN {<<>>}
  ELSE {Append(q, s) : q \in PathsOfLen(n - 1), s \in Segs}

Paths == UNION {PathsOfLen(n) : n \in 0..MaxPathLen}

Roots ==
  { NULL,
    Num(7),
    Str(<<"h", "i">>),
    Obj(<<>>),
    Arr(<<>>),
    Obj(<< <<"a", Obj(<< <<"name", Str(<<"B">>)>>, <<"a", Arr(<<Num(1)>>)>> >>)>>,
           <<"name", Arr(<<Num(1), Obj(<< <<"a", NULL>> >>)>>)>> >>),
    Arr(<< Obj(<< <<"a", Arr(<<Num(1), Num(2)>>)>>, <<"name", Num(5)>> >>),
           Arr(<<Obj(<<>>), Str(<<"x">>)>>) >>) }

Values == { Num(2), Str(<<"v">>), Obj(<< <<"a", Num(1)>> >>) }

NoOut == [op |-> "none"]

PathInit ==
  /\ \E rt \in Roots, vt \in Values :
       LET r1 == Alloc(<<>>, rt)
           r2 == Alloc(r1.h, vt)
       IN /\ pheap = r2.h
          /\ proot = r1.v
          /\ pvalue = r2.v
  /\ ppath \in Paths
  /\ pout = NoOut

SessionIdle ==
  /\ contents = <<>>
  /\ selectedNode = [none |-> TRUE]
  /\ name = <<>>
  /\ color = <<>>
  /\ opened = FALSE
  /\ nodeModal = FALSE
  /\ pending = <<>>
  /\ saves = 0
  /\ last = [kind |-> "init"]
  /\ hist = [none |-> TRUE]

\* setAtPath(root, path, value)
Write ==
  /\ pout = NoOut
  /\ LET s == setAtPath(pheap, proot, ppath, pvalue)
     IN pout' = [op |-> "write", h |-> s.h, r |-> s.r,
                 value |-> pvalue]
  /\ UNCHANGED <<pheap, proot, ppath, pvalue>>
  /\ UNCHANGED sessionVars

\* setAtPath(root, path, getAtPath(root, path))
WriteBack ==
  /\ pout = NoOut
  /\ LET got == getAtPath(pheap, proot, ppath)
         s == setAtPath(pheap, proot, ppath, got)
     IN pout' = [op |-> "writeback", h |-> s.h, r |-> s.r,
                 value |-> got]
  /\ UNCHANGED <<pheap, proot, ppath, pvalue>>
  /\ UNCHANGED sessionVars

PathNext == Write \/ WriteBack

InitPath == PathInit /\ SessionIdle

SpecPath == InitPath /\ [][PathNext]_vars

-----------------------------------------------------------------------------
(* Properties of setAtPath and getAtPath (SpecPath) *)

Prefix(path, q) == SubSeq(path, 1, q)

\* the value reached from v by reading the segments of path in turn,
\* undefined below null and undefined
RECURSIVE Walk(_, _, _)
Walk(h, v, path) ==
  IF path = <<>> THEN v
  ELSE IF IsNullish(v) THEN UNDEF
  ELSE Walk(h, Get(h, v, Head(path)), Tail(path))

\* what the input holds at the first q segments of the path
InAt(q) == Walk(pheap, proot, Prefix(ppath, q))

\* what the returned document holds there
OutAt(q) == Walk(pout.h, pout.r, Prefix(ppath, q))

\* the addresses of the containers reachable from v
RECURSIVE Reach(_, _)
Reach(h, v) ==
  IF v.t # "ref" THEN {}
  ELSE {v.a}
       \cup UNION {Reach(h, h[v.a].e[i]) : i \in 1..Len(h[v.a].e)}
       \cup UNION {Reach(h, h[v.a].p[i][2]) : i \in 1..Len(h[v.a].p)}

\* the own keys of a cell: its element indices and its property names
OwnKeys(c) == {DigitStr[i] : i \in 1..Len(c.e)} \cup {c.p[i][1] : i \in 1..Len(c.p)}

\* own property read by key
GetOwn(h, a, k) ==
  IF h[a].t = "arr" /\ IsIndexKey(k)
  THEN IF KeyIdx(k) < Len(h[a].e) THEN h[a].e[KeyIdx(k) + 1] ELSE UNDEF
  ELSE Lookup(h[a].p, k)

Fresh(v) == v.t = "ref" /\ v.a > Len(pheap)

\* the steps of the path that lead to a container: the root (0) and every
\* proper prefix
Steps == 0..(Len(ppath) - 1)

\* C2: a write at a non-empty path changes no cell of the input heap, the
\* containers on the path are new cells, they are the only new cells of the
\* returned document, and every entry of an input container on the path,
\* other than the entry the path goes through, is the identical value (the
\* same reference) in the copy.
Thm_C2_WritePreservesInputAndShares ==
  (pout.op = "write" /\ Len(ppath) > 0) =>
    /\ \A a \in 1..Len(pheap) : pout.h[a] = pheap[a]
    /\ \A q \in Steps : Fresh(OutAt(q))
    /\ {a \in Reach(pout.h, pout.r) : a > Len(pheap)} = {OutAt(q).a : q \in Steps}
    /\ \A q \in Steps :
         InAt(q).t = "ref" =>
           /\ pout.h[OutAt(q).a].t = pheap[InAt(q).a].t
           /\ \A k \in OwnKeys(pheap[InAt(q).a]) \ {ToKey(ppath[q + 1])} :
                GetOwn(pout.h, OutAt(q).a, k) = GetOwn(pheap, InAt(q).a, k)

\* a write two containers deep into a root that has a sibling container off
\* the path
Wit_C2_SiblingContainerOffPath ==
  /\ pout.op = "write"
  /\ Len(ppath) >= 2
  /\ InAt(0).t = "ref"
  /\ InAt(1).t = "ref"
  /\ \E k \in OwnKeys(pheap[InAt(0).a]) \ {ToKey(ppath[1])} :
       GetOwn(pheap, InAt(0).a, k).t = "ref"

\* every step of the path is an own entry of a container of the input
Present ==
  \A q \in Steps :
    /\ InAt(q).t = "ref"
    /\ ToKey(ppath[q + 1]) \in OwnKeys(pheap[InAt(q).a])

\* C7 as claimed: for every root and every path, writing back the resolved
\* value returns a document deep-equal to the root whose root and path
\* containers are new references.
CE_C7_WriteBackEveryPath ==
  pout.op = "writeback" =>
    /\ DeepEqual(pout.h, pout.r, pheap, proot)
    /\ proot.t = "ref" => Fresh(pout.r)
    /\ \A q \in Steps : Fresh(OutAt(q))

\* C7 amended: for every root and every non-empty path each of whose steps
\* is an own entry of an array or object of the root, writing back the
\* resolved value returns a document deep-equal to the root, and the root
\* and the containers on the path are new references.
Thm_C7_WriteBackPresentPath ==
  (pout.op = "writeback" /\ Len(ppath) > 0 /\ Present) =>
    /\ DeepEqual(pout.h, pout.r, pheap, proot)
    /\ pout.value = InAt(Len(ppath))
    /\ \A q \in Steps : Fresh(OutAt(q)) /\ OutAt(q) # InAt(q)

\* a write-back through an object and an array down to a present entry
Wit_C7_WriteBackNested ==
  /\ pout.op = "writeback"
  /\ Len(ppath) >= 2
  /\ Present
  /\ \E q \in Steps : IsArray(pheap, InAt(q))
  /\ \E q \in Steps : IsObject(pheap, InAt(q))

\* the container found in the result at step q was created empty and then
\* only written at the segment that indexes into it
CreatedEmpty(q) ==
  LET c == pout.h[OutAt(q).a]
  IN IF c.t = "obj"
     THEN \A i \in 1..Len(c.p) : c.p[i][1] = ToKey(ppath[q + 1])
     ELSE /\ c.p = <<>>
          /\ \A i \in 1..Len(c.e) : (i - 1 # ppath[q + 1].n) => c.e[i] = UNDEF

\* array when the segment that indexes into the container is an integer,
\* object otherwise
KindFor(seg) == IF seg.t = "num" THEN "arr" ELSE "obj"

\* C8 as claimed: for any root, a null or primitive root included, every
\* container the write creates where the input has none is an empty array
\* when the segment indexing into it is an integer and an empty object
\* otherwise, and the path resolves to the written value afterwards.
CE_C8_CreatedContainersAnyRoot ==
  (pout.op = "write" /\ Len(ppath) > 0) =>
    /\ getAtPath(pout.h, pout.r, ppath) = pout.value
    /\ \A q \in Steps :
         InAt(q).t # "ref" =>
           /\ OutAt(q).t = "ref"
           /\ pout.h[OutAt(q).a].t = KindFor(ppath[q + 1])
           /\ CreatedEmpty(q)

\* the entries an object spread gives the copy of a primitive
SpreadOfPrim(v) ==
  IF v.t = "str" THEN {DigitStr[i] : i \in 1..Len(v.s)} ELSE {}

\* C8 amended: the write returns a document in which the path resolves to
\* the written value; a container it creates for a null or absent step
\* below the root is an empty array when the next segment is an integer and
\* an empty object otherwise; a null or primitive root, and a primitive
\* found at a step below the root, is replaced by an object whatever the
\* next segment (holding the characters of a string, otherwise empty).
Thm_C8_CreatedContainers ==
  (pout.op = "write" /\ Len(ppath) > 0) =>
    /\ getAtPath(pout.h, pout.r, ppath) = pout.value
    /\ \A q \in Steps :
         InAt(q).t # "ref" =>
           /\ OutAt(q).t = "ref"
           /\ IF q > 0 /\ IsNullish(InAt(q))
              THEN /\ pout.h[OutAt(q).a].t = KindFor(ppath[q + 1])
                   /\ CreatedEmpty(q)
              ELSE /\ pout.h[OutAt(q).a].t = "obj"
                   /\ OwnKeys(pout.h[OutAt(q).a])
                        = SpreadOfPrim(InAt(q)) \cup {ToKey(ppath[q + 1])}

\* a write that creates an array and an object below an existing root
Wit_C8_CreatesArrayAndObject ==
  /\ pout.op = "write"
  /\ InAt(0).t = "ref"
  /\ \E q \in Steps : q > 0 /\ IsNullish(InAt(q)) /\ IsArray(pout.h, OutAt(q))
  /\ \E q \in Steps : q > 0 /\ IsNullish(InAt(q)) /\ IsObject(pout.h, OutAt(q))

-----------------------------------------------------------------------------
(* The document text: a sequence of tokens.  Punctuation, keys, atoms (the *)
(* primitive values), and white space: nl is a line break followed by      *)
(* 2 * d spaces, sp a single space.                                        *)

P(c) == [t |-> "p", c |-> c]
KeyTok(k) == [t |-> "key", k |-> k]
NL(d) == [t |-> "nl", d |-> d]
SP == [t |-> "sp"]

IsWs(tk) == tk.t \in {"nl", "sp"}
IsAtomTok(tk) == tk.t \in {"null", "bool", "num", "str"}
IsP(tk, c) == tk.t = "p" /\ tk.c = c

SyntaxError == [ok |-> FALSE]

Tok(ts, i) == IF i <= Len(ts) THEN ts[i] ELSE [t |-> "eof"]

\* the JSON grammar over the tokens without white space: the value starting
\* at token i and the index after it
RECURSIVE ParseValue(_, _)
RECURSIVE ParseMembers(_, _, _)
RECURSIVE ParseElements(_, _, _)
ParseMembers(ts, i, acc) ==
  IF Tok(ts, i).t = "key" /\ IsP(Tok(ts, i + 1), ":")
  THEN LET r == ParseValue(ts, i + 2)
       IN IF ~r.ok THEN SyntaxError
          ELSE IF IsP(Tok(ts, r.i), ",")
          THEN ParseMembers(ts, r.i + 1, PutProp(acc, ts[i].k, r.v))
          ELSE IF IsP(Tok(ts, r.i), "}")
          THEN [ok |-> TRUE, v |-> Obj(PutProp(acc, ts[i].k, r.v)), i |-> r.i + 1]
          ELSE SyntaxError
  ELSE SyntaxError
ParseElements(ts, i, acc) ==
  LET r == ParseValue(ts, i)
  IN IF ~r.ok THEN SyntaxError
     ELSE IF IsP(Tok(ts, r.i), ",")
     THEN ParseElements(ts, r.i + 1, Append(acc, r.v))
     ELSE IF IsP(Tok(ts, r.i), "]")
     THEN [ok |-> TRUE, v |-> Arr(Append(acc, r.v)), i |-> r.i + 1]
     ELSE SyntaxError
ParseValue(ts, i) ==
  LET tk == Tok(ts, i)
  IN IF IsAtomTok(tk) THEN [ok |-> TRUE, v |-> tk, i |-> i + 1]
     ELSE IF IsP(tk, "{")
     THEN IF IsP(Tok(ts, i + 1), "}")
          THEN [ok |-> TRUE, v |-> Obj(<<>>), i |-> i + 2]
          ELSE ParseMembers(ts, i + 1, <<>>)
     ELSE IF IsP(tk, "[")
     THEN IF IsP(Tok(ts, i + 1), "]")
          THEN [ok |-> TRUE, v |-> Arr(<<>>), i |-> i + 2]
          ELSE ParseElements(ts, i + 1, <<>>)
     ELSE SyntaxError

\* JSON.parse(raw): [ok, v] with v the parsed tree, ok FALSE for a
\* SyntaxError
JSONparse(raw) ==
  LET ts == SelectSeq(raw, LAMBDA tk : ~IsWs(tk))
      r == ParseValue(ts, 1)
  IN IF r.ok /\ r.i = Len(ts) + 1 THEN [ok |-> TRUE, v |-> r.v] ELSE SyntaxError

\* JSON.stringify(v, null, 2) of heap value v at nesting depth d: undefined
\* properties are left out, undefined elements and holes print as null, the
\* named properties of an array are left out
RECURSIVE Stringify(_, _, _)
RECURSIVE StringifyElems(_, _, _)
RECURSIVE StringifyProps(_, _, _)
StringifyElems(h, es, d) ==
  IF es = <<>> THEN <<>>
  ELSE <<NL(d)>> \o Stringify(h, Head(es), d)
       \o (IF Len(es) > 1 THEN <<P(",")>> ELSE <<>>)
       \o StringifyElems(h, Tail(es), d)
StringifyProps(h, ps, d) ==
  IF ps = <<>> THEN <<>>
  ELSE <<NL(d), KeyTok(Head(ps)[1]), P(":"), SP>> \o Stringify(h, Head(ps)[2], d)
       \o (IF Len(ps) > 1 THEN <<P(",")>> ELSE <<>>)
       \o StringifyProps(h, Tail(ps), d)
Stringify(h, v, d) ==
  IF v.t = "undef" THEN <<NULL>>
  ELSE IF v.t # "ref" THEN <<v>>
  ELSE IF h[v.a].t = "arr"
  THEN IF h[v.a].e = <<>> THEN <<P("["), P("]")>>
       ELSE <<P("[")>> \o StringifyElems(h, h[v.a].e, d + 1) \o <<NL(d), P("]")>>
  ELSE LET ps == SelectSeq(h[v.a].p, LAMBDA en : en[2].t # "undef")
       IN IF ps = <<>> THEN <<P("{"), P("}")>>
          ELSE <<P("{")>> \o StringifyProps(h, ps, d + 1) \o <<NL(d), P("}")>>

JSONstringify(h, v) == Stringify(h, v, 0)

-----------------------------------------------------------------------------
(* Nodes and rows *)

NoNode == [none |-> TRUE]
IsNode(n) == "path" \in DOMAIN n

\* a row without a key (key null); the empty key is falsy as well
NoKey == ""

Row(k, ty, v) == [key |-> k, type |-> ty, value |-> v]

RowType(v) == IF v.t = "obj" THEN "object" ELSE IF v.t = "arr" THEN "array" ELSE "primitive"
RowValue(v) == IF IsContainer(v) THEN UNDEF ELSE v

\* the rows of the node shown for tree v: the fields of an object, the
\* unkeyed elements of an array, the unkeyed value of a primitive
RowsOf(v) ==
  IF v.t = "obj"
  THEN [i \in 1..Len(v.p) |-> Row(v.p[i][1], RowType(v.p[i][2]), RowValue(v.p[i][2]))]
  ELSE IF v.t = "arr"
  THEN [i \in 1..Len(v.e) |-> Row(NoKey, RowType(v.e[i]), RowValue(v.e[i]))]
  ELSE <<Row(NoKey, "primitive", v)>>

\* decimal digits of a natural number
RECURSIVE Digits(_)
Digits(n) == IF n < 10 THEN <<DigitStr[n + 1]>> ELSE Append(Digits(n \div 10), DigitStr[(n % 10) + 1])

\* String(v) of a primitive
String(v) ==
  CASE v.t = "str" -> v.s
    [] v.t = "num" -> Digits(v.n)
    [] v.t = "bool" -> IF v.b THEN <<"t", "r", "u", "e">> ELSE <<"f", "a", "l", "s", "e">>
    [] v.t = "null" -> <<"n", "u", "l", "l">>
    [] OTHER -> <<"u", "n", "d", "e", "f", "i", "n", "e", "d">>

\* rows.find(r => r.key === k): the first such row, or undefined
FindRow(rows, k) ==
  IF \E i \in 1..Len(rows) : rows[i].key = k
  THEN rows[CHOOSE i \in 1..Len(rows) :
              rows[i].key = k /\ \A j \in 1..(i - 1) : rows[j].key # k]
  ELSE Row(NoKey, "primitive", UNDEF)

\* the value the effect gives the input for key k: the row's value as a
\* string, the empty string without such a row or with a null value
InputFor(node, k) ==
  IF ~IsNode(node) THEN <<>>
  ELSE LET r == FindRow(node.text, k)
       IN IF IsNullish(r.value) THEN <<>> ELSE String(r.value)

\* mutant of effectRuns: the effect depends on the selected node only
effectRuns_SelectionOnly(nodeReplaced, openedBefore, openedAfter) == nodeReplaced

\* the effect's dependencies [selectedNode, opened]: it runs after a render
\* in which the selected node was replaced or opened changed
effectRuns(nodeReplaced, openedBefore, openedAfter) ==
  nodeReplaced \/ openedBefore # openedAfter

\* an input after the handler: initialised by the effect if it runs
AfterEffect(runs, node, k, current) == IF runs THEN InputFor(node, k) ELSE current

\* the fallback's existing: the keyed rows that are neither array nor object
RECURSIVE existingOf(_, _)
existingOf(rows, acc) ==
  IF rows = <<>> THEN acc
  ELSE existingOf(Tail(rows),
         IF Head(rows).type # "array" /\ Head(rows).type # "object" /\ Head(rows).key # NoKey
         THEN PutProp(acc, Head(rows).key, Head(rows).value)
         ELSE acc)

\* { ...base, ...updates } with updates = {name, color}
WithUpdates(base, nm, col) == PutProp(PutProp(base, "name", Str(nm)), "color", Str(col))

\* mutant of Replacement: the spreads are swapped, { ...updates, ...current }
RECURSIVE PutAll(_, _)
PutAll(base, entries) ==
  IF entries = <<>> THEN base
  ELSE PutAll(PutProp(base, Head(entries)[1], Head(entries)[2]), Tail(entries))
Replacement_UpdatesFirst(h, currentAtPath, rows, nm, col) ==
  IF IsObject(h, currentAtPath)
  THEN PutAll(WithUpdates(<<>>, nm, col), h[currentAtPath.a].p)
  ELSE PutAll(WithUpdates(<<>>, nm, col), existingOf(rows, <<>>))

\* the entries of replacement: the merge into the object at the path, or the
\* fallback built from the node's rows
Replacement(h, currentAtPath, rows, nm, col) ==
  IF IsObject(h, currentAtPath)
  THEN WithUpdates(h[currentAtPath.a].p, nm, col)
  ELSE WithUpdates(existingOf(rows, <<>>), nm, col)

\* updatedText: the rows given to the selected node
updatedText(h, rows, replacement) ==
  [i \in 1..Len(rows) |->
     IF rows[i].key = NoKey THEN rows[i]
     ELSE IF HasKey(replacement, rows[i].key)
             /\ rows[i].type # "object" /\ rows[i].type # "array"
     THEN [rows[i] EXCEPT !.value = Tree(h, Lookup(replacement, rows[i].key))]
     ELSE rows[i]]

\* the synchronous part of save() for a selected node: ok FALSE when
\* JSON.parse throws, else the node given to setSelectedNode and the text
\* handed to setContents
saveSync(raw, node, nm, col) ==
  LET parsed == JSONparse(raw)
  IN IF ~parsed.ok THEN [ok |-> FALSE]
     ELSE LET json == Alloc(<<>>, parsed.v)
              currentAtPath == getAtPath(json.h, json.v, node.path)
              replacement == Replacement(json.h, currentAtPath, node.text, nm, col)
              rows == updatedText(json.h, node.text, replacement)
              h1 == Append(json.h, Obj(replacement))
              updatedJson == setAtPath(h1, json.v, node.path, Ref(Len(h1)))
          IN [ok |-> TRUE,
              node |-> [node EXCEPT !.text = rows],
              text |-> JSONstringify(updatedJson.h, updatedJson.r)]

-----------------------------------------------------------------------------
(* Spec: the edit session *)

\* reading and replacing in a tree, for the documents of Init and for
\* stating what a save must produce
TreeGet(t, seg) ==
  IF t.t = "arr" /\ seg.t = "num"
  THEN IF seg.n < Len(t.e) THEN t.e[seg.n + 1] ELSE UNDEF
  ELSE IF IsContainer(t) THEN Lookup(t.p, ToKey(seg))
  ELSE UNDEF

RECURSIVE TreeAt(_, _)
TreeAt(t, path) ==
  IF path = <<>> THEN t ELSE TreeAt(TreeGet(t, Head(path)), Tail(path))

RECURSIVE TreeReplace(_, _, _)
TreeReplace(t, path, new) ==
  IF path = <<>> THEN new
  ELSE IF t.t = "arr"
  THEN [t EXCEPT !.e[Head(path).n + 1] = TreeReplace(@, Tail(path), new)]
  ELSE [t EXCEPT !.p = [i \in 1..Len(t.p) |->
                          IF t.p[i][1] = ToKey(Head(path))
                          THEN <<t.p[i][1], TreeReplace(t.p[i][2], Tail(path), new)>>
                          ELSE t.p[i]]]

DocUser ==
  Obj(<< <<"user", Obj(<< <<"name", Str(<<"B", "o", "b">>)>>,
                          <<"tags", Arr(<<Str(<<"x">>)>>)>> >>)>> >>)
DocList ==
  Arr(<< Obj(<< <<"color", NULL>>, <<"name", Num(5)>> >>), Num(7) >>)
DocNamed ==
  Obj(<< <<"name", Obj(<< <<"a", Num(1)>> >>)>>, <<"a", Bool(TRUE)>> >>)
DocAged ==
  Obj(<< <<"user", Obj(<< <<"name", Str(<<"B", "o", "b">>)>>, <<"age", Num(5)>> >>)>> >>)
\* the document DocAged was before the text was edited: another age, and a
\* field the text no longer has
DocAgedBefore ==
  Obj(<< <<"user", Obj(<< <<"name", Str(<<"B", "o", "b">>)>>, <<"age", Num(4)>>,
                          <<"a", Num(1)>> >>)>> >>)

\* <<document, path of the selected node, document the node's rows were
\* built from>>: the node of the current document, or a node selected
\* before the text was edited, whose rows no longer agree with the text
Selections ==
  { <<DocUser, <<Key("user")>>, DocUser>>,
    <<DocUser, <<Key("user"), Key("tags")>>, DocUser>>,
    <<DocList, <<>>, DocList>>,
    <<DocList, <<Idx(0)>>, DocList>>,
    <<DocList, <<Idx(1)>>, DocList>>,
    <<DocNamed, <<>>, DocNamed>>,
    <<DocAged, <<Key("user")>>, DocAgedBefore>>,
    <<DocUser, <<Key("user"), Key("tags")>>, DocAgedBefore>> }

NodeAt(doc, path) == [path |-> path, text |-> RowsOf(TreeAt(doc, path))]

\* the text of a document as the editor may hold it: without white space
\* (a save rewrites it with JSON.stringify's indentation), or cut short
\* (not JSON)
Pretty(doc) == LET a == Alloc(<<>>, doc) IN JSONstringify(a.h, a.v)
Compact(doc) == SelectSeq(Pretty(doc), LAMBDA tk : ~IsWs(tk))
Broken(doc) == SubSeq(Compact(doc), 1, Len(Compact(doc)) - 1)
TextsOf(doc) == {Compact(doc), Broken(doc)}

\* what the user may type into an input
InputTexts == {<<>>, <<"A", "l">>}

PathIdle ==
  /\ pheap = <<>>
  /\ proot = NULL
  /\ ppath = <<>>
  /\ pvalue = NULL
  /\ pout = NoOut

\* the component once mounted: the first render (useState("")) and the
\* effect, which runs after the first render whatever its dependencies
SessionInit ==
  /\ \/ \E sel \in Selections :
          /\ contents \in TextsOf(sel[1])
          /\ selectedNode = NodeAt(sel[3], sel[2])
     \/ /\ contents = Compact(DocUser)
        /\ selectedNode = NoNode
  /\ name = AfterEffect(TRUE, selectedNode, "name", <<>>)
  /\ color = AfterEffect(TRUE, selectedNode, "color", <<>>)
  /\ opened = FALSE
  /\ nodeModal = FALSE
  /\ pending = <<>>
  /\ saves = 0
  /\ last = [kind |-> "init"]
  /\ hist = [atOpen |-> contents, typed |-> FALSE, cancelled |-> FALSE, inFlight |-> FALSE]

Init == SessionInit /\ PathIdle

Remove(q, i) == SubSeq(q, 1, i - 1) \o SubSeq(q, i + 1, Len(q))

\* no pending save is any longer the last thing the user did
Unfresh(q) == [i \in 1..Len(q) |-> [q[i] EXCEPT !.fresh = FALSE]]

Snapshot == [contents |-> contents, opened |-> opened, nodeModal |-> nodeModal,
             node |-> selectedNode]

\* setContents({ contents: text }) once it completes: the stored text
setContents(old, text, ok) == IF ok THEN text ELSE old

\* the modal is opened: the effect initialises the inputs
Open ==
  /\ ~opened
  /\ opened' = TRUE
  /\ name' = AfterEffect(effectRuns(FALSE, opened, TRUE), selectedNode, "name", name)
  /\ color' = AfterEffect(effectRuns(FALSE, opened, TRUE), selectedNode, "color", color)
  /\ hist' = [atOpen |-> contents, typed |-> FALSE, cancelled |-> FALSE, inFlight |-> FALSE]
  /\ pending' = Unfresh(pending)
  /\ last' = [kind |-> "open"]
  /\ UNCHANGED <<saves, contents, selectedNode, nodeModal>>
  /\ UNCHANGED pathVars

\* Cancel or the close button: onClose; the effect runs as opened changes
Cancel ==
  /\ opened
  /\ opened' = FALSE
  /\ name' = AfterEffect(effectRuns(FALSE, opened, FALSE), selectedNode, "name", name)
  /\ color' = AfterEffect(effectRuns(FALSE, opened, FALSE), selectedNode, "color", color)
  /\ hist' = [hist EXCEPT !.cancelled = TRUE, !.inFlight = (pending # <<>>)]
  /\ pending' = Unfresh(pending)
  /\ last' = [kind |-> "cancel"]
  /\ UNCHANGED <<saves, contents, selectedNode, nodeModal>>
  /\ UNCHANGED pathVars

\* typing into the name input
TypeName(v) ==
  /\ opened
  /\ v # name
  /\ name' = v
  /\ pending' = Unfresh(pending)
  /\ last' = [kind |-> "type"]
  /\ hist' = [hist EXCEPT !.typed = TRUE]
  /\ UNCHANGED <<saves, contents, selectedNode, color, opened, nodeModal>>
  /\ UNCHANGED pathVars

\* typing into the color input
TypeColor(v) ==
  /\ opened
  /\ v # color
  /\ color' = v
  /\ pending' = Unfresh(pending)
  /\ last' = [kind |-> "type"]
  /\ hist' = [hist EXCEPT !.typed = TRUE]
  /\ UNCHANGED <<saves, contents, selectedNode, name, opened, nodeModal>>
  /\ UNCHANGED pathVars

\* the Save button: save() up to its await, and the effect that runs when
\* setSelectedNode has replaced the selected node
Save ==
  /\ opened
  /\ saves < MaxSaves
  /\ IF ~IsNode(selectedNode)
     THEN /\ last' = [kind |-> "noNode"]
          /\ UNCHANGED <<selectedNode, name, color, pending>>
     ELSE LET r == saveSync(contents, selectedNode, name, color)
          IN IF ~r.ok
             THEN /\ last' = [kind |-> "parseError", pre |-> Snapshot]
                  /\ UNCHANGED <<selectedNode, name, color, pending>>
             ELSE /\ selectedNode' = r.node
                  /\ name' = AfterEffect(effectRuns(TRUE, opened, opened), r.node, "name", name)
                  /\ color' = AfterEffect(effectRuns(TRUE, opened, opened), r.node, "color", color)
                  /\ pending' = Append(Unfresh(pending),
                                  [text |-> r.text, raw |-> contents, node |-> selectedNode,
                                   name |-> name, color |-> color, rows |-> r.node.text,
                                   fresh |-> TRUE])
                  /\ last' = [kind |-> "dispatched", node |-> selectedNode,
                              name |-> name, color |-> color]
  /\ saves' = saves + 1
  /\ UNCHANGED <<contents, opened, nodeModal, hist>>
  /\ UNCHANGED pathVars

\* the setContents call of pending save i resolves: save() continues after
\* its await and closes the modal; the effect runs if opened changes
PersistOk(i) ==
  /\ i \in 1..Len(pending)
  /\ contents' = setContents(contents, pending[i].text, TRUE)
  /\ opened' = FALSE
  /\ nodeModal' = TRUE
  /\ name' = AfterEffect(effectRuns(FALSE, opened, FALSE), selectedNode, "name", name)
  /\ color' = AfterEffect(effectRuns(FALSE, opened, FALSE), selectedNode, "color", color)
  /\ pending' = Unfresh(Remove(pending, i))
  /\ last' = [kind |-> "committed", save |-> pending[i]]
  /\ UNCHANGED <<saves, selectedNode, hist>>
  /\ UNCHANGED pathVars

\* mutant of PersistFail: the modals are switched in a finally, so on a
\* failure as well
PersistFail_ClosesModal(i) ==
  /\ i \in 1..Len(pending)
  /\ contents' = setContents(contents, pending[i].text, FALSE)
  /\ opened' = FALSE
  /\ nodeModal' = TRUE
  /\ name' = AfterEffect(effectRuns(FALSE, opened, FALSE), selectedNode, "name", name)
  /\ color' = AfterEffect(effectRuns(FALSE, opened, FALSE), selectedNode, "color", color)
  /\ pending' = Remove(pending, i)
  /\ last' = [kind |-> "persistError", save |-> pending[i], pre |-> Snapshot]
  /\ UNCHANGED <<saves, selectedNode, hist>>
  /\ UNCHANGED pathVars

\* the setContents call of pending save i rejects: the catch logs the error
PersistFail(i) ==
  /\ i \in 1..Len(pending)
  /\ contents' = setContents(contents, pending[i].text, FALSE)
  /\ pending' = Remove(pending, i)
  /\ last' = [kind |-> "persistError", save |-> pending[i], pre |-> Snapshot]
  /\ UNCHANGED <<saves, selectedNode, name, color, opened, nodeModal, hist>>
  /\ UNCHANGED pathVars

Next ==
  \/ Open
  \/ Cancel
  \/ \E v \in InputTexts : TypeName(v)
  \/ \E v \in InputTexts : TypeColor(v)
  \/ Save
  \/ \E i \in 1..MaxSaves : PersistOk(i)
  \/ \E i \in 1..MaxSaves : PersistFail(i)

Spec == Init /\ [][Next]_vars

-----------------------------------------------------------------------------
(* Properties of the edit session (Spec) *)

\* the save that has just completed, the document it read and what that
\* document held at the node's path
Done == last.save
OldDoc == JSONparse(Done.raw).v
OldAtPath == TreeAt(OldDoc, Done.node.path)
NewDoc == JSONparse(contents)

\* O merged with the edit set: an edited key takes the input's value where
\* it stands, the keys of the edit set that O lacks follow in the order
\* name, color
Merged(p, nm, col) ==
  [i \in 1..Len(p) |->
     IF p[i][1] = "name" THEN <<"name", Str(nm)>>
     ELSE IF p[i][1] = "color" THEN <<"color", Str(col)>>
     ELSE p[i]]
  \o (IF HasKey(p, "name") THEN <<>> ELSE <<<<"name", Str(nm)>>>>)
  \o (IF HasKey(p, "color") THEN <<>> ELSE <<<<"color", Str(col)>>>>)

\* C1: after a successful save whose node's path held a non-array object O
\* in the document the save read, the stored text parses to that document
\* with the value at the path replaced by O merged with {name, color}, and
\* nothing else changed.
Thm_C1_SaveMergesIntoObject ==
  (last.kind = "committed" /\ OldAtPath.t = "obj") =>
    /\ NewDoc.ok
    /\ NewDoc.v = TreeReplace(OldDoc, Done.node.path,
                              Obj(Merged(OldAtPath.p, Done.name, Done.color)))

\* a committed save below the root that changed the name of an object,
\* appended its color and kept its other field
Wit_C1_MergedBelowRoot ==
  /\ last.kind = "committed"
  /\ OldAtPath.t = "obj"
  /\ Done.node.path # <<>>
  /\ HasKey(OldAtPath.p, "name")
  /\ Lookup(OldAtPath.p, "name") # Str(Done.name)
  /\ ~HasKey(OldAtPath.p, "color")
  /\ Done.color # <<>>
  /\ \E i \in 1..Len(OldAtPath.p) : OldAtPath.p[i][1] \notin {"name", "color"}

IsPrimitive(v) == v.t \in {"null", "bool", "num", "str"}

\* the direct members of a container
Members(v) ==
  IF IsContainer(v)
  THEN {v.e[i] : i \in 1..Len(v.e)} \cup {v.p[i][2] : i \in 1..Len(v.p)}
  ELSE {}

\* new still holds what old held: the elements of an array, the value of a
\* primitive
Keeps(new, old) ==
  \/ new = old
  \/ IF old.t = "arr" THEN \A i \in 1..Len(old.e) : old.e[i] \in Members(new)
     ELSE old \in Members(new)

\* C3 as claimed: a save whose node's path held an array or a primitive does
\* not store a document in which that array's elements or that primitive's
\* value are gone from the path.
CE_C3_ArrayOrPrimitiveSurvives ==
  (last.kind = "committed" /\ (OldAtPath.t = "arr" \/ IsPrimitive(OldAtPath))) =>
    /\ NewDoc.ok
    /\ Keeps(TreeAt(NewDoc.v, Done.node.path), OldAtPath)

\* what the row update of a save with inputs nm, col may do to rows a,
\* giving rows b
EditOf(k, nm, col) == IF k = "name" THEN Str(nm) ELSE Str(col)
RowsEdited(a, b, nm, col) ==
  /\ Len(b) = Len(a)
  /\ \A i \in 1..Len(a) :
       /\ b[i].key = a[i].key
       /\ b[i].type = a[i].type
       /\ IF a[i].key \in {"name", "color"} /\ a[i].type = "primitive"
          THEN b[i].value = EditOf(a[i].key, nm, col)
          ELSE b[i] = a[i]

\* what the row update of the code does to rows a, giving rows b, for a save
\* with inputs nm, col that read the tree cur at the node's path: a keyed
\* row that is neither object nor array takes the input's value when named
\* name or color, else the value cur has at its key when cur is an object
\* with that key; every other row is the row it was
RowsUpdated(a, b, nm, col, cur) ==
  /\ Len(b) = Len(a)
  /\ \A i \in 1..Len(a) :
       /\ b[i].key = a[i].key
       /\ b[i].type = a[i].type
       /\ IF a[i].key = NoKey \/ a[i].type \in {"object", "array"}
          THEN b[i] = a[i]
          ELSE IF a[i].key \in {"name", "color"}
          THEN b[i].value = EditOf(a[i].key, nm, col)
          ELSE IF cur.t = "obj" /\ HasKey(cur.p, a[i].key)
          THEN b[i].value = Lookup(cur.p, a[i].key)
          ELSE b[i] = a[i]

Failed == last.kind \in {"parseError", "persistError"}

\* C4: the handler of a failed save changes neither the stored text nor the
\* visibility of the edit modal and of the detail view; a ParseError is
\* met with the modal open and leaves the selected node as it was; a
\* PersistError leaves the selected node as the dispatch made it: when
\* nothing else happened since this save was dispatched the modal is open
\* and the node's rows are the updated rows of this save, as the row update
\* of the code computes them.
Thm_C4_FailedSaveChangesNothing ==
  Failed =>
    /\ contents = last.pre.contents
    /\ opened = last.pre.opened
    /\ nodeModal = last.pre.nodeModal
    /\ selectedNode = last.pre.node
    /\ last.kind = "parseError" => opened
    /\ (last.kind = "persistError" /\ Done.fresh) =>
         /\ opened
         /\ selectedNode.text = Done.rows
         /\ RowsUpdated(Done.node.text, selectedNode.text, Done.name, Done.color, OldAtPath)

\* a PersistError right after a dispatch that changed the node's rows
Wit_C4_PersistErrorAfterRowUpdate ==
  /\ last.kind = "persistError"
  /\ Done.fresh
  /\ selectedNode.text # Done.node.text
  /\ contents # Done.text

\* C5 as claimed: after a cancel, until the modal is opened again, the
\* stored text is the text the modal was opened on, the modal is closed and
\* no save commits.
CE_C5_CancelStopsEverySave ==
  hist.cancelled =>
    /\ contents = hist.atOpen
    /\ ~opened
    /\ last.kind # "committed"

\* C5 amended: after a cancel taken while no save is in flight, until the
\* modal is opened again, the stored text is the text the modal was opened
\* on, the modal is closed, the inputs hold what the selected node's rows
\* give them and no save commits.  (A save in flight at the cancel is not
\* stopped: it may still store its document and open the detail view.)
Thm_C5_CancelWithNothingInFlight ==
  (hist.cancelled /\ ~hist.inFlight) =>
    /\ contents = hist.atOpen
    /\ ~opened
    /\ last.kind # "committed"
    /\ name = InputFor(selectedNode, "name")
    /\ color = InputFor(selectedNode, "color")

\* the modal was cancelled after typing, with nothing in flight
Wit_C5_CancelledAfterTyping ==
  /\ last.kind = "cancel"
  /\ hist.cancelled
  /\ ~hist.inFlight
  /\ hist.typed
  /\ IsNode(selectedNode)
  /\ saves = 0

\* C6 as claimed: at most one save is between its start and the completion
\* of its persistence call.
CE_C6_OneSaveInFlight == Len(pending) <= 1

\* C9 as claimed: the dispatch gives the selected node rows of the same
\* length, order, keys and types; a row differs from the row it was only if
\* it is keyed, of primitive type and named name or color, and then it
\* holds the input's value; the path is kept.
CE_C9_OnlyEditedRowsChange ==
  last.kind = "dispatched" =>
    /\ selectedNode.path = last.node.path
    /\ RowsEdited(last.node.text, selectedNode.text, last.name, last.color)

\* C10 as claimed: when a save has failed with a PersistError and nothing
\* else happened since it was dispatched, the inputs hold the values that
\* save submitted.
CE_C10_InputsKeptAfterPersistError ==
  (last.kind = "persistError" /\ Done.fresh /\ opened) =>
    /\ name = Done.name
    /\ color = Done.color

====
